---- MODULE Spec2Model ----
(***************************************************************************)
(* Model of the medical chat client: the ChatInterface component (its      *)
(* React state, its asynchronous handlers and the closures they capture),  *)
(* the response selector generateMedicalResponse, and the hosted store     *)
(* (tables chat_sessions and messages with their row-level policies).      *)
(*                                                                         *)
(* Strings are sequences of one-character strings, so that trim,           *)
(* toLowerCase and includes are computed character by character.           *)
(*                                                                         *)
(* Every store call is two steps: the store serves the request (the       *)
(* Server actions), and later the awaiting handler resumes with the        *)
(* response (the Cont actions).                                            *)
(* A handler runs atomically from one await to the next, and it reads the  *)
(* state variables of the render in which it was invoked (its closure).    *)
(***************************************************************************)
EXTENDS Integers, Sequences, FiniteSets, TLC

(***************************************************************************)
(* Bounds                                                                  *)
(***************************************************************************)
MaxFrags == 3
MaxPre == 1
MaxNewChats == 1
MaxMessages == 4
MaxLoads == 1
MaxAuthChanges == 3

(***************************************************************************)
(* Strings                                                                 *)
(***************************************************************************)
UpperChars ==
  <<"A","B","C","D","E","F","G","H","I","J","K","L","M",
    "N","O","P","Q","R","S","T","U","V","W","X","Y","Z">>

LowerChars ==
  <<"a","b","c","d","e","f","g","h","i","j","k","l","m",
    "n","o","p","q","r","s","t","u","v","w","x","y","z">>

WhiteSpace == {" ", "\t", "\n"}

LowerChar(c) ==
  IF \E k \in 1..Len(UpperChars) : UpperChars[k] = c
  THEN LowerChars[CHOOSE k \in 1..Len(UpperChars) : UpperChars[k] = c]
  ELSE c

toLowerCase(s) == [i \in 1..Len(s) |-> LowerChar(s[i])]

includes(s, k) ==
  \E i \in 0..(Len(s) - Len(k)) : SubSeq(s, i + 1, i + Len(k)) = k

trim(s) ==
  LET keep == {i \in 1..Len(s) : s[i] \notin WhiteSpace}
  IN IF keep = {} THEN <<>>
     ELSE SubSeq(s, CHOOSE i \in keep : \A j \in keep : i <= j,
                    CHOOSE i \in keep : \A j \in keep : j <= i)

(***************************************************************************)
(* Response selector                                                       *)
(***************************************************************************)
kwHeadache == <<"h","e","a","d","a","c","h","e">>
kwFever == <<"f","e","v","e","r">>
kwCold == <<"c","o","l","d">>
kwFlu == <<"f","l","u">>
kwCough == <<"c","o","u","g","h">>

\* The five fixed replies; each text is kept whole, as a one-element sequence.
HeadacheAdvice ==
  <<"For headaches, try resting in a quiet, dark room. Stay hydrated and consider over-the-counter pain relievers like acetaminophen or ibuprofen. If headaches persist or worsen, consult a healthcare provider.">>

FeverAdvice ==
  <<"For fever, stay hydrated, rest, and monitor your temperature. Over-the-counter fever reducers like acetaminophen or ibuprofen can help. Seek medical attention if fever exceeds 103F (39.4C) or lasts more than 3 days.">>

ColdFluAdvice ==
  <<"For cold or flu symptoms, get plenty of rest, stay hydrated, and use over-the-counter medications for symptom relief. Wash hands frequently and avoid close contact with others. Consult a doctor if symptoms worsen or persist beyond 10 days.">>

CoughAdvice ==
  <<"For a cough, stay hydrated, use honey (for ages 1+), and consider cough suppressants. Avoid irritants like smoke. If cough persists beyond 3 weeks, produces blood, or is accompanied by fever, see a healthcare provider.">>

GenericDisclaimer ==
  <<"I understand you have a health concern. While I can provide general information, I recommend consulting with a qualified healthcare professional for personalized medical advice and proper diagnosis. Always seek immediate medical attention for emergencies.">>

\* generateMedicalResponse with the fever test moved before the headache test.
generateMedicalResponse_FeverFirst(q) ==
  LET lowerQuery == toLowerCase(q)
  IN IF includes(lowerQuery, kwFever) THEN FeverAdvice
     ELSE IF includes(lowerQuery, kwHeadache) THEN HeadacheAdvice
     ELSE IF includes(lowerQuery, kwCold) \/ includes(lowerQuery, kwFlu)
          THEN ColdFluAdvice
     ELSE IF includes(lowerQuery, kwCough) THEN CoughAdvice
     ELSE GenericDisclaimer

\* generateMedicalResponse without the 'flu' alternative of the third test.
generateMedicalResponse_NoFlu(q) ==
  LET lowerQuery == toLowerCase(q)
  IN IF includes(lowerQuery, kwHeadache) THEN HeadacheAdvice
     ELSE IF includes(lowerQuery, kwFever) THEN FeverAdvice
     ELSE IF includes(lowerQuery, kwCold) THEN ColdFluAdvice
     ELSE IF includes(lowerQuery, kwCough) THEN CoughAdvice
     ELSE GenericDisclaimer

generateMedicalResponse(q) ==
  LET lowerQuery == toLowerCase(q)
  IN IF includes(lowerQuery, kwHeadache) THEN HeadacheAdvice
     ELSE IF includes(lowerQuery, kwFever) THEN FeverAdvice
     ELSE IF includes(lowerQuery, kwCold) \/ includes(lowerQuery, kwFlu)
          THEN ColdFluAdvice
     ELSE IF includes(lowerQuery, kwCough) THEN CoughAdvice
     ELSE GenericDisclaimer

(***************************************************************************)
(* State                                                                   *)
(***************************************************************************)
VARIABLES
  chat_sessions,   \* store: rows of table chat_sessions, in insertion order
  db_messages,     \* store: rows of table messages, in insertion order
  clock,           \* the time; every timestamp taken advances it
  sessions,        \* useState: the in-memory session list
  currentSession,  \* useState: the selected session, or NoSession (null)
  messages,        \* useState: the in-memory message list
  input,           \* useState: the text of the input field
  loading,         \* useState: TRUE while awaiting a reply
  lsCall,          \* the loadSessions() call of the mount effect
  loads,           \* loadMessages() calls of the currentSession effect, in flight
  creates,         \* createNewSession() calls in flight
  sends,           \* sendMessage() calls in flight
  newChats,        \* the number of clicks on "+ New Chat" so far
  query,           \* selector alone: the fragments of the query so far
  reply,           \* selector alone: the reply to the query, <<>> before
  authSession,     \* auth service: the user of its session, or NoUser
  getSessionCall,  \* useAuth: the getSession() call of its effect
  authEvents,      \* auth service: events not yet delivered to the callback
  authUser,        \* useAuth useState: user
  authLoading,     \* useAuth useState: loading
  lastEvent,       \* history: the session of the event delivered last
  authChanges      \* the number of changes of the auth session so far

vars ==
  <<chat_sessions, db_messages, clock, sessions, currentSession, messages,
    input, loading, lsCall, loads, creates, sends, newChats, query,
    reply, authSession, getSessionCall, authEvents, authUser, authLoading,
    lastEvent, authChanges>>

storeVars == <<chat_sessions, db_messages, clock>>
viewVars == <<sessions, currentSession, messages, input, loading>>
callVars == <<lsCall, loads, creates, sends, newChats>>
selVars == <<query, reply>>
authVars ==
  <<authSession, getSessionCall, authEvents, authUser, authLoading, lastEvent,
    authChanges>>

\* The signed-in user (prop user of ChatInterface, auth.uid() in the store)
\* and another user of the same store.
user == [id |-> "u1"]
otherUserId == "u2"

NoSession ==
  [id |-> 0, user_id |-> "", title |-> "", created_at |-> 0, updated_at |-> 0,
   ref |-> "null"]

\* A row of chat_sessions as a JavaScript object of the client; ref tells the
\* objects of two responses apart (React compares state values by identity).
SessionObject(row, ref) ==
  [id |-> row.id, user_id |-> row.user_id, title |-> row.title,
   created_at |-> row.created_at, updated_at |-> row.updated_at, ref |-> ref]

(***************************************************************************)
(* The store: tables, row-level policies, queries                          *)
(***************************************************************************)
Range(f) == {f[i] : i \in DOMAIN f}

\* DEFAULT values of table chat_sessions for an insert of (user_id, title).
NewSessionRow(uid, title, now) ==
  [id |-> Len(chat_sessions) + 1, user_id |-> uid, title |-> title,
   created_at |-> now, updated_at |-> now]

\* DEFAULT values of table messages for an insert of (session_id, role, content).
NewMessageRow(sid, role, content, now) ==
  [id |-> Len(db_messages) + 1, session_id |-> sid, role |-> role,
   content |-> content, created_at |-> now]

\* SessionPolicy with USING (true).
SessionPolicy_Open(uid, row) == TRUE

\* Policies of chat_sessions: auth.uid() = user_id.
SessionPolicy(uid, row) == uid = row.user_id

\* Policies of messages: the parent session is owned by auth.uid().
MessagePolicy(uid, m) ==
  \E s \in Range(chat_sessions) : s.id = m.session_id /\ s.user_id = uid

\* CHECK (role IN ('user', 'assistant'))
RoleCheck(m) == m.role \in {"user", "assistant"}

\* OrderByUpdatedDesc with { ascending: true }.
OrderByUpdatedDesc_Ascending(rows) ==
  [i \in 1..Cardinality(rows) |->
     CHOOSE r \in rows :
       Cardinality({x \in rows : x.updated_at < r.updated_at
                                  \/ (x.updated_at = r.updated_at /\ x.id < r.id)})
         = i - 1]

\* .order('updated_at', { ascending: false }); rows equal in updated_at,
\* which the store may return in any order, are put in id order.
OrderByUpdatedDesc(rows) ==
  [i \in 1..Cardinality(rows) |->
     CHOOSE r \in rows :
       Cardinality({x \in rows : x.updated_at > r.updated_at
                                  \/ (x.updated_at = r.updated_at /\ x.id < r.id)})
         = i - 1]

\* OrderByCreatedAsc with { ascending: false }.
OrderByCreatedAsc_Descending(rows) ==
  [i \in 1..Cardinality(rows) |->
     CHOOSE r \in rows :
       Cardinality({x \in rows : x.created_at > r.created_at
                                  \/ (x.created_at = r.created_at /\ x.id < r.id)})
         = i - 1]

\* .order('created_at', { ascending: true }); as for updated_at, every
\* timestamp is taken at another time, so that no two rows are equal in it.
OrderByCreatedAsc(rows) ==
  [i \in 1..Cardinality(rows) |->
     CHOOSE r \in rows :
       Cardinality({x \in rows : x.created_at < r.created_at
                                  \/ (x.created_at = r.created_at /\ x.id < r.id)})
         = i - 1]

\* from('chat_sessions').select('*').order('updated_at', desc), as auth.uid() = uid
SelectSessions(uid) ==
  OrderByUpdatedDesc({r \in Range(chat_sessions) : SessionPolicy(uid, r)})

\* from('messages').select('*').eq('session_id', sid).order('created_at', asc)
SelectMessages(uid, sid) ==
  OrderByCreatedAsc({m \in Range(db_messages) :
                       MessagePolicy(uid, m) /\ m.session_id = sid})

\* The rows of one session in insertion order, read off the table directly.
Stored(sid) == SelectSeq(db_messages, LAMBDA m : m.session_id = sid)

(***************************************************************************)
(* Initial state: the component has just mounted, its mount effect has     *)
(* issued loadSessions(); the store holds a conversation of another user   *)
(* and up to MaxPre unused sessions the signed-in user created earlier.    *)
(***************************************************************************)
strFlu == <<"F","l","u">>
strBlank == <<" "," ">>
strHeadache ==
  <<" ","I"," ","h","a","v","e"," ","a"," ","H","e","a","d","a","c","h","e","\n">>

Inputs == {strBlank, strHeadache}

OtherSession ==
  [id |-> 1, user_id |-> otherUserId, title |-> "New Chat",
   created_at |-> 1, updated_at |-> 4]

OtherMessages ==
  <<[id |-> 1, session_id |-> 1, role |-> "user", content |-> strFlu,
     created_at |-> 2],
    [id |-> 2, session_id |-> 1, role |-> "assistant",
     content |-> ColdFluAdvice, created_at |-> 3]>>

PreSessions(k) ==
  [i \in 1..(k + 1) |->
     IF i = 1 THEN OtherSession
     ELSE [id |-> i, user_id |-> user.id, title |-> "New Chat",
           created_at |-> 3 + i, updated_at |-> 3 + i]]

Call(stage, error, data) == [stage |-> stage, error |-> error, data |-> data]

InitChat ==
  /\ \E k \in 0..MaxPre :
       /\ chat_sessions = PreSessions(k)
       /\ clock = 4 + k
  /\ db_messages = OtherMessages
  /\ sessions = <<>>
  /\ currentSession = NoSession
  /\ messages = <<>>
  /\ input = <<>>
  /\ loading = FALSE
  /\ lsCall = [currentSession |-> NoSession, call |-> Call("sent", FALSE, <<>>)]
  /\ loads = <<>>
  /\ creates = <<>>
  /\ sends = <<>>
  /\ newChats = 0
  /\ query = <<>>
  /\ reply = <<>>

\* No user: session?.user ?? null
NoUser == "null"

\* App has rendered ChatInterface for user: the initial getSession() has
\* completed and the auth state holds user.
Init ==
  /\ InitChat
  /\ authSession = user.id
  /\ getSessionCall = Call("done", FALSE, user.id)
  /\ authEvents = <<>>
  /\ authUser = user.id
  /\ authLoading = FALSE
  /\ lastEvent = [seen |-> FALSE, user |-> NoUser]
  /\ authChanges = 0

(***************************************************************************)
(* Helpers of the handlers                                                 *)
(***************************************************************************)
Remove(seq, i) == SubSeq(seq, 1, i - 1) \o SubSeq(seq, i + 1, Len(seq))

\* useEffect(..., [currentSession]): after a render in which currentSession
\* is another object than before, loadMessages(currentSession.id) is called.
currentSessionEffect(old, new, ld) ==
  IF new # old /\ new # NoSession
  THEN Append(ld, [sessionId |-> new.id, call |-> Call("sent", FALSE, <<>>),
                   seen |-> 0])
  ELSE ld

\* History: remember in every send in flight that the selection changed.
MarkSwitched(sds, new) ==
  [i \in DOMAIN sds |->
     [sds[i] EXCEPT !.switched = @ \/ new.id # currentSession.id]]

(***************************************************************************)
(* loadSessions (mount effect)                                             *)
(***************************************************************************)
ServerLoadSessions ==
  /\ lsCall.call.stage = "sent"
  /\ \E ok \in BOOLEAN :
       lsCall' = [lsCall EXCEPT !.call =
                    Call("answered", ~ok,
                         IF ok THEN SelectSessions(user.id) ELSE <<>>)]
  /\ UNCHANGED <<storeVars, viewVars, loads, creates, sends, newChats, selVars, authVars>>

\* The continuation reads currentSession of the render that called it: the
\* first render, in which currentSession is null.
ContLoadSessions ==
  /\ lsCall.call.stage = "answered"
  /\ lsCall' = [lsCall EXCEPT !.call = Call("done", FALSE, <<>>)]
  /\ IF lsCall.call.error
     THEN UNCHANGED <<sessions, currentSession, loads, sends>>
     ELSE LET data == [i \in DOMAIN lsCall.call.data |->
                         SessionObject(lsCall.call.data[i], "loadSessions")]
              new == IF Len(data) > 0 /\ lsCall.currentSession = NoSession
                     THEN data[1] ELSE currentSession
          IN /\ sessions' = data
             /\ currentSession' = new
             /\ loads' = currentSessionEffect(currentSession, new, loads)
             /\ sends' = MarkSwitched(sends, new)
  /\ UNCHANGED <<storeVars, messages, input, loading, creates, newChats, selVars, authVars>>

(***************************************************************************)
(* loadMessages called by the currentSession effect                        *)
(***************************************************************************)
ServerLoadMessages(i) ==
  /\ loads[i].call.stage = "sent"
  /\ \E ok \in BOOLEAN :
       loads' = [loads EXCEPT
         ![i].call = Call("answered", ~ok,
                          IF ok THEN SelectMessages(user.id, loads[i].sessionId)
                          ELSE <<>>),
         \* history: how many rows the session held when the load was served
         ![i].seen = IF ok THEN Len(Stored(loads[i].sessionId)) ELSE 0]
  /\ UNCHANGED <<storeVars, viewVars, lsCall, creates, sends, newChats, selVars, authVars>>

\* ContLoadMessages with setMessages(data || []) ahead of the error check.
ContLoadMessages_ClearOnError(i) ==
  /\ loads[i].call.stage = "answered"
  /\ loads' = Remove(loads, i)
  /\ messages' = IF loads[i].call.error THEN <<>> ELSE loads[i].call.data
  /\ UNCHANGED <<storeVars, sessions, currentSession, input, loading, lsCall,
                 creates, sends, newChats, selVars, authVars>>

ContLoadMessages(i) ==
  /\ loads[i].call.stage = "answered"
  /\ loads' = Remove(loads, i)
  /\ messages' = IF loads[i].call.error THEN messages ELSE loads[i].call.data
  /\ UNCHANGED <<storeVars, sessions, currentSession, input, loading, lsCall,
                 creates, sends, newChats, selVars, authVars>>

(***************************************************************************)
(* createNewSession ("+ New Chat")                                         *)
(***************************************************************************)
\* The click: the handler of the current render runs up to its await.
ClickNewChat ==
  /\ newChats < MaxNewChats
  /\ newChats' = newChats + 1
  /\ creates' = Append(creates, [sessions |-> sessions,
                                 call |-> Call("sent", FALSE, <<>>)])
  /\ UNCHANGED <<storeVars, viewVars, lsCall, loads, sends, selVars, authVars>>

ServerCreateSession(i) ==
  /\ creates[i].call.stage = "sent"
  /\ \E ok \in BOOLEAN :
       LET row == NewSessionRow(user.id, "New Chat", clock + 1)
           accepted == ok /\ SessionPolicy(user.id, row)
       IN /\ creates' = [creates EXCEPT ![i].call =
                           Call("answered", ~accepted,
                                IF accepted THEN <<row>> ELSE <<>>)]
          /\ IF accepted
             THEN /\ chat_sessions' = Append(chat_sessions, row)
                  /\ clock' = clock + 1
             ELSE UNCHANGED <<chat_sessions, clock>>
  /\ UNCHANGED <<db_messages, viewVars, lsCall, loads, sends, newChats, selVars, authVars>>

\* ContCreateSession with setMessages([]) ahead of the error check.
ContCreateSession_ClearOnError(i) ==
  /\ creates[i].call.stage = "answered"
  /\ creates' = Remove(creates, i)
  /\ IF creates[i].call.error \/ creates[i].call.data = <<>>
     THEN /\ messages' = <<>>
          /\ UNCHANGED <<sessions, currentSession, loads, sends>>
     ELSE LET data == SessionObject(creates[i].call.data[1], "createNewSession")
          IN /\ sessions' = <<data>> \o creates[i].sessions
             /\ currentSession' = data
             /\ messages' = <<>>
             /\ loads' = currentSessionEffect(currentSession, data, loads)
             /\ sends' = MarkSwitched(sends, data)
  /\ UNCHANGED <<storeVars, input, loading, lsCall, newChats, selVars, authVars>>

\* The continuation prepends to the sessions of the render that was clicked.
ContCreateSession(i) ==
  /\ creates[i].call.stage = "answered"
  /\ creates' = Remove(creates, i)
  /\ IF creates[i].call.error \/ creates[i].call.data = <<>>
     THEN UNCHANGED <<sessions, currentSession, messages, loads, sends>>
     ELSE LET data == SessionObject(creates[i].call.data[1], "createNewSession")
          IN /\ sessions' = <<data>> \o creates[i].sessions
             /\ currentSession' = data
             /\ messages' = <<>>
             /\ loads' = currentSessionEffect(currentSession, data, loads)
             /\ sends' = MarkSwitched(sends, data)
  /\ UNCHANGED <<storeVars, input, loading, lsCall, newChats, selVars, authVars>>

(***************************************************************************)
(* Session item click and typing                                           *)
(***************************************************************************)
ClickSession(k) ==
  /\ k \in 1..Len(sessions)
  /\ sessions[k] # currentSession
  /\ Len(loads) < MaxLoads
  /\ currentSession' = sessions[k]
  /\ loads' = currentSessionEffect(currentSession, sessions[k], loads)
  /\ sends' = MarkSwitched(sends, sessions[k])
  /\ UNCHANGED <<storeVars, sessions, messages, input, loading, lsCall,
                 creates, newChats, selVars, authVars>>

\* onChange of the textarea, rendered when a session is selected and
\* disabled while loading.
TypeInput(t) ==
  /\ currentSession # NoSession
  /\ ~loading
  /\ t # input
  /\ input' = t
  /\ UNCHANGED <<storeVars, sessions, currentSession, messages, loading,
                 callVars, selVars, authVars>>

(***************************************************************************)
(* sendMessage (send button, Enter key)                                    *)
(***************************************************************************)
\* if (!input.trim() || !currentSession || loading) return
SendGuard(inp, cur, ld) == trim(inp) # <<>> /\ cur # NoSession /\ ~ld

\* SendMessage without setLoading(true).
SendMessage_NoSetLoading ==
  /\ SendGuard(input, currentSession, loading)
  /\ Len(db_messages) + 2 * (Len(sends) + 1) <= MaxMessages
  /\ input' = <<>>
  /\ sends' = Append(sends,
       [cs |-> currentSession,
        userMessage |-> trim(input),
        assistantResponse |-> <<>>,
        updated_at |-> 0,
        pc |-> "userInsert",
        call |-> Call("sent", FALSE, <<>>),
        seen |-> 0,
        typed |-> input,
        pre |-> Stored(currentSession.id),
        issued |-> <<"userInsert">>,
        failed |-> {},
        switched |-> FALSE])
  /\ UNCHANGED <<storeVars, sessions, currentSession, messages, loading, lsCall,
                 loads, creates, newChats, selVars, authVars>>

\* SendMessage with userMessage = input, not trimmed.
SendMessage_NoTrim ==
  /\ SendGuard(input, currentSession, loading)
  /\ Len(db_messages) + 2 * (Len(sends) + 1) <= MaxMessages
  /\ input' = <<>>
  /\ loading' = TRUE
  /\ sends' = Append(sends,
       [cs |-> currentSession,
        userMessage |-> input,
        assistantResponse |-> <<>>,
        updated_at |-> 0,
        pc |-> "userInsert",
        call |-> Call("sent", FALSE, <<>>),
        \* history
        seen |-> 0,
        typed |-> input,
        pre |-> Stored(currentSession.id),
        issued |-> <<"userInsert">>,
        failed |-> {},
        switched |-> FALSE])
  /\ UNCHANGED <<storeVars, sessions, currentSession, messages, lsCall, loads,
                 creates, newChats, selVars, authVars>>

\* The invocation: the handler of the current render runs up to its first
\* await; cs is the currentSession it keeps using after every await.
SendMessage ==
  /\ SendGuard(input, currentSession, loading)
  /\ Len(db_messages) + 2 * (Len(sends) + 1) <= MaxMessages
  /\ input' = <<>>
  /\ loading' = TRUE
  /\ sends' = Append(sends,
       [cs |-> currentSession,
        userMessage |-> trim(input),
        assistantResponse |-> <<>>,
        updated_at |-> 0,
        pc |-> "userInsert",
        call |-> Call("sent", FALSE, <<>>),
        \* history
        seen |-> 0,
        typed |-> input,
        pre |-> Stored(currentSession.id),
        issued |-> <<"userInsert">>,
        failed |-> {},
        switched |-> FALSE])
  /\ UNCHANGED <<storeVars, sessions, currentSession, messages, lsCall, loads,
                 creates, newChats, selVars, authVars>>

\* ServerInsertMessage as an upsert that replaces the session's latest row.
ServerInsertMessage_Upsert(i, role, content, ok) ==
  LET row == NewMessageRow(sends[i].cs.id, role, content, clock + 1)
      accepted == ok /\ MessagePolicy(user.id, row) /\ RoleCheck(row)
      old == {k \in DOMAIN db_messages : db_messages[k].session_id = row.session_id}
  IN /\ sends' = [sends EXCEPT ![i].call = Call("answered", ~accepted, <<>>),
                               ![i].failed = IF accepted THEN @
                                             ELSE @ \cup {sends[i].pc}]
     /\ IF accepted
        THEN /\ db_messages' =
                  IF old = {} THEN Append(db_messages, row)
                  ELSE LET last == CHOOSE k \in old : \A j \in old : j <= k
                       IN [db_messages EXCEPT ![last] = [row EXCEPT !.id = last]]
             /\ clock' = clock + 1
        ELSE UNCHANGED <<db_messages, clock>>
     /\ UNCHANGED chat_sessions

\* from('messages').insert([{ session_id, role, content }])
ServerInsertMessage(i, role, content, ok) ==
  LET row == NewMessageRow(sends[i].cs.id, role, content, clock + 1)
      accepted == ok /\ MessagePolicy(user.id, row) /\ RoleCheck(row)
  IN /\ sends' = [sends EXCEPT ![i].call = Call("answered", ~accepted, <<>>),
                               ![i].failed = IF accepted THEN @
                                             ELSE @ \cup {sends[i].pc}]
     /\ IF accepted
        THEN /\ db_messages' = Append(db_messages, row)
             /\ clock' = clock + 1
        ELSE UNCHANGED <<db_messages, clock>>
     /\ UNCHANGED chat_sessions

\* loadMessages(currentSession.id) awaited inside sendMessage
ServerSendLoad(i, ok) ==
  /\ sends' = [sends EXCEPT
       ![i].call = Call("answered", ~ok,
                        IF ok THEN SelectMessages(user.id, sends[i].cs.id)
                        ELSE <<>>),
       ![i].seen = IF ok THEN Len(Stored(sends[i].cs.id)) ELSE 0,
       ![i].failed = IF ok THEN @ ELSE @ \cup {sends[i].pc}]
  /\ UNCHANGED storeVars

\* ServerTouch without .eq('id', currentSession.id).
ServerTouch_AllSessions(i, ok) ==
  /\ sends' = [sends EXCEPT ![i].call = Call("answered", ~ok, <<>>),
                            ![i].failed = IF ok THEN @ ELSE @ \cup {"touch"}]
  /\ chat_sessions' =
       IF ok
       THEN [k \in DOMAIN chat_sessions |->
               IF SessionPolicy(user.id, chat_sessions[k])
               THEN [chat_sessions[k] EXCEPT !.updated_at = sends[i].updated_at]
               ELSE chat_sessions[k]]
       ELSE chat_sessions
  /\ UNCHANGED <<db_messages, clock>>

\* from('chat_sessions').update({ updated_at }).eq('id', currentSession.id)
ServerTouch(i, ok) ==
  /\ sends' = [sends EXCEPT ![i].call = Call("answered", ~ok, <<>>),
                            ![i].failed = IF ok THEN @ ELSE @ \cup {"touch"}]
  /\ chat_sessions' =
       IF ok
       THEN [k \in DOMAIN chat_sessions |->
               IF chat_sessions[k].id = sends[i].cs.id
                  /\ SessionPolicy(user.id, chat_sessions[k])
               THEN [chat_sessions[k] EXCEPT !.updated_at = sends[i].updated_at]
               ELSE chat_sessions[k]]
       ELSE chat_sessions
  /\ UNCHANGED <<db_messages, clock>>

ServerSend(i) ==
  /\ sends[i].call.stage = "sent"
  /\ \E ok \in BOOLEAN :
       CASE sends[i].pc = "userInsert" ->
              ServerInsertMessage(i, "user", sends[i].userMessage, ok)
         [] sends[i].pc = "assistantInsert" ->
              ServerInsertMessage(i, "assistant", sends[i].assistantResponse, ok)
         [] sends[i].pc \in {"load1", "load2"} -> ServerSendLoad(i, ok)
         [] sends[i].pc = "touch" -> ServerTouch(i, ok)
  /\ UNCHANGED <<viewVars, lsCall, loads, creates, newChats, selVars, authVars>>

\* The handler issues its next call.
Issue(s, pc) ==
  [s EXCEPT !.pc = pc, !.call = Call("sent", FALSE, <<>>), !.seen = 0,
            !.issued = Append(@, pc)]

\* ContUserInsert without the return on error.
ContUserInsert_NoReturn(i) ==
  /\ sends[i].pc = "userInsert"
  /\ sends' = [sends EXCEPT ![i] = Issue(@, "load1")]
  /\ UNCHANGED <<loading, messages, clock>>

\* After the 'user' insert: on error log, setLoading(false), return;
\* otherwise await loadMessages.
ContUserInsert(i) ==
  /\ sends[i].pc = "userInsert"
  /\ IF sends[i].call.error
     THEN /\ loading' = FALSE
          /\ sends' = Remove(sends, i)
     ELSE /\ sends' = [sends EXCEPT ![i] = Issue(@, "load1")]
          /\ UNCHANGED loading
  /\ UNCHANGED <<messages, clock>>

\* ContLoad1 going on with the session selected now, not the one of its closure.
ContLoad1_Rebind(i) ==
  /\ sends[i].pc = "load1"
  /\ messages' = IF sends[i].call.error THEN messages ELSE sends[i].call.data
  /\ sends' = [sends EXCEPT ![i] =
                 [Issue(@, "assistantInsert") EXCEPT
                    !.assistantResponse =
                       generateMedicalResponse(sends[i].userMessage),
                    !.cs = currentSession]]
  /\ UNCHANGED <<loading, clock>>

\* After the first reload: setMessages unless it failed, compute the reply,
\* insert the 'assistant' message.
ContLoad1(i) ==
  /\ sends[i].pc = "load1"
  /\ messages' = IF sends[i].call.error THEN messages ELSE sends[i].call.data
  /\ sends' = [sends EXCEPT ![i] =
                 [Issue(@, "assistantInsert") EXCEPT !.assistantResponse =
                    generateMedicalResponse(sends[i].userMessage)]]
  /\ UNCHANGED <<loading, clock>>

\* ContAssistantInsert giving up on error as the 'user' insert does.
ContAssistantInsert_ReturnOnError(i) ==
  /\ sends[i].pc = "assistantInsert"
  /\ IF sends[i].call.error
     THEN /\ loading' = FALSE
          /\ sends' = Remove(sends, i)
     ELSE /\ sends' = [sends EXCEPT ![i] = Issue(@, "load2")]
          /\ UNCHANGED loading
  /\ UNCHANGED <<messages, clock>>

\* After the 'assistant' insert: log an error, then reload in either case.
ContAssistantInsert(i) ==
  /\ sends[i].pc = "assistantInsert"
  /\ sends' = [sends EXCEPT ![i] = Issue(@, "load2")]
  /\ UNCHANGED <<messages, loading, clock>>

\* After the second reload: setMessages unless it failed, then touch the
\* session with new Date() taken now.
ContLoad2(i) ==
  /\ sends[i].pc = "load2"
  /\ messages' = IF sends[i].call.error THEN messages ELSE sends[i].call.data
  /\ clock' = clock + 1
  /\ sends' = [sends EXCEPT ![i] =
                 [Issue(@, "touch") EXCEPT !.updated_at = clock + 1]]
  /\ UNCHANGED loading

\* ContTouch without setLoading(false).
ContTouch_NoIdle(i) ==
  /\ sends[i].pc = "touch"
  /\ sends' = Remove(sends, i)
  /\ UNCHANGED <<loading, messages, clock>>

\* After the touch (its result is not looked at): setLoading(false).
ContTouch(i) ==
  /\ sends[i].pc = "touch"
  /\ loading' = FALSE
  /\ sends' = Remove(sends, i)
  /\ UNCHANGED <<messages, clock>>

ContSend(i) ==
  /\ sends[i].call.stage = "answered"
  /\ \/ ContUserInsert(i)
     \/ ContLoad1(i)
     \/ ContAssistantInsert(i)
     \/ ContLoad2(i)
     \/ ContTouch(i)
  /\ UNCHANGED <<chat_sessions, db_messages, sessions, currentSession, input,
                 lsCall, loads, creates, newChats, selVars, authVars>>

(***************************************************************************)
(* The component                                                           *)
(***************************************************************************)
Next ==
  \/ ServerLoadSessions
  \/ ContLoadSessions
  \/ \E i \in DOMAIN loads : ServerLoadMessages(i)
  \/ \E i \in DOMAIN loads : ContLoadMessages(i)
  \/ ClickNewChat
  \/ \E i \in DOMAIN creates : ServerCreateSession(i)
  \/ \E i \in DOMAIN creates : ContCreateSession(i)
  \/ \E k \in DOMAIN sessions : ClickSession(k)
  \/ \E t \in Inputs : TypeInput(t)
  \/ SendMessage
  \/ \E i \in DOMAIN sends : ServerSend(i)
  \/ \E i \in DOMAIN sends : ContSend(i)

Spec == Init /\ [][Next]_vars

(***************************************************************************)
(* The response selector on its own: a query is put together from up to    *)
(* MaxFrags fragments, then generateMedicalResponse is applied to it.      *)
(***************************************************************************)
Fragments ==
  { <<"H","E","A","D">>, <<"a","c","h","e">>, <<"F","e","v","e","r">>,
    <<"c","o","l","d">>, <<"F","L","U">>, <<"C","o","u","g","h">>,
    <<"h","e">>, <<" ">> }

RECURSIVE Concat(_)
Concat(fs) == IF fs = <<>> THEN <<>> ELSE Head(fs) \o Concat(Tail(fs))

QueryString == Concat(query)

AppendFragment(f) ==
  /\ reply = <<>>
  /\ Len(query) < MaxFrags
  /\ query' = Append(query, f)
  /\ UNCHANGED <<storeVars, viewVars, callVars, reply, authVars>>

Select ==
  /\ reply = <<>>
  /\ reply' = generateMedicalResponse(QueryString)
  /\ UNCHANGED <<storeVars, viewVars, callVars, query, authVars>>

NextSel ==
  \/ \E f \in Fragments : AppendFragment(f)
  \/ Select

SpecSel == Init /\ [][NextSel]_vars

(***************************************************************************)
(* Properties of the selector                                              *)
(***************************************************************************)
\* c is the letter k (a lower-case letter) in either case.
SameLetter(c, k) ==
  c = k \/ \E n \in 1..Len(LowerChars) : LowerChars[n] = k /\ UpperChars[n] = c

\* s contains the keyword kw at some position, case-insensitively.
ContainsCI(s, kw) ==
  \E i \in 1..Len(s) :
    /\ i + Len(kw) - 1 <= Len(s)
    /\ \A j \in 1..Len(kw) : SameLetter(s[i + j - 1], kw[j])

\* C5: whenever the query contains "headache" case-insensitively at any
\* position, the selector's reply is the headache advice, whatever other
\* keywords the query contains.
C5_HeadachePriority ==
  (reply # <<>> /\ ContainsCI(QueryString, kwHeadache)) => reply = HeadacheAdvice

C5_Witness ==
  /\ reply = HeadacheAdvice
  /\ ContainsCI(QueryString, kwFever)
  /\ ContainsCI(QueryString, kwHeadache)
  /\ ~includes(QueryString, kwHeadache)

\* C6: the selector's reply is one of the five fixed strings, the one of the
\* first keyword group, in the order headache, fever, cold or flu, cough, that
\* the query contains case-insensitively, and it is the generic disclaimer
\* exactly when the query contains none of the five keywords.
C6_FirstMatch ==
  reply # <<>> =>
    LET q == QueryString
        h == ContainsCI(q, kwHeadache)
        f == ContainsCI(q, kwFever)
        c == ContainsCI(q, kwCold) \/ ContainsCI(q, kwFlu)
        g == ContainsCI(q, kwCough)
    IN /\ reply \in {HeadacheAdvice, FeverAdvice, ColdFluAdvice, CoughAdvice,
                     GenericDisclaimer}
       /\ (reply = HeadacheAdvice) <=> h
       /\ (reply = FeverAdvice) <=> (~h /\ f)
       /\ (reply = ColdFluAdvice) <=> (~h /\ ~f /\ c)
       /\ (reply = CoughAdvice) <=> (~h /\ ~f /\ ~c /\ g)
       /\ (reply = GenericDisclaimer) <=> (~h /\ ~f /\ ~c /\ ~g)

C6_Witness ==
  /\ reply = ColdFluAdvice
  /\ ContainsCI(QueryString, kwFlu)
  /\ ContainsCI(QueryString, kwCough)
  /\ ~ContainsCI(QueryString, kwCold)

(***************************************************************************)
(* Properties of sendMessage                                               *)
(***************************************************************************)
\* Stored(sid) in the next state of a step.
StoredAfter(sid) == SelectSeq(db_messages', LAMBDA m : m.session_id = sid)

\* The step in which the send in flight returns.
SendReturns == Len(sends) = 1 /\ sends' = <<>>

\* The step in which the send in flight resumes after the call pc.
SendResumes(pc) ==
  /\ Len(sends) = 1
  /\ sends[1].pc = pc
  /\ sends[1].call.stage = "answered"
  /\ \/ sends' = <<>>
     \/ Len(sends') = 1 /\ sends'[1].pc # pc

IsMessage(m, sid, role, content) ==
  m.session_id = sid /\ m.role = role /\ m.content = content

\* st is the sequence pre followed by the 'user' message of the send s.
PreThenUser(st, s) ==
  /\ Len(st) = Len(s.pre) + 1
  /\ SubSeq(st, 1, Len(s.pre)) = s.pre
  /\ IsMessage(st[Len(st)], s.cs.id, "user", trim(s.typed))

\* st is the sequence pre followed by the 'user' message of the send s and
\* the 'assistant' message that answers it.
PreThenExchange(st, s) ==
  /\ Len(st) = Len(s.pre) + 2
  /\ PreThenUser(SubSeq(st, 1, Len(st) - 1), s)
  /\ IsMessage(st[Len(st)], s.cs.id, "assistant",
               generateMedicalResponse(trim(s.typed)))

\* C1: when a send of which every store operation succeeded returns, the
\* stored messages of its session are those stored at its invocation followed
\* by the 'user' message with the trimmed input and the 'assistant' message
\* with the selector's reply to it; and if the selection did not change
\* meanwhile, the in-memory message list equals that stored sequence.
C1_SuccessfulExchange ==
  [][(SendReturns /\ sends[1].failed = {}) =>
       /\ PreThenExchange(StoredAfter(sends[1].cs.id), sends[1])
       /\ ~sends[1].switched => messages' = StoredAfter(sends[1].cs.id)]_vars

\* The store half of C1 alone.
C1_StoredExchange ==
  [][(SendReturns /\ sends[1].failed = {}) =>
       PreThenExchange(StoredAfter(sends[1].cs.id), sends[1])]_vars

\* C2: once the store has rejected the 'assistant' insert of a send whose
\* 'user' insert succeeded, the stored messages of the session are, until the
\* send returns, those stored at its invocation followed by the new 'user'
\* message (it is not rolled back, no 'assistant' message is added); the
\* reload that follows, unless it fails, makes the in-memory message list
\* that sequence; and the send goes on to the touch and returns to idle.
C2_AssistantInsertRejected ==
  [][(Len(sends) = 1 /\ "assistantInsert" \in sends[1].failed) =>
       /\ "userInsert" \notin sends[1].failed
       /\ PreThenUser(Stored(sends[1].cs.id), sends[1])
       /\ PreThenUser(StoredAfter(sends[1].cs.id), sends[1])
       /\ SendResumes("assistantInsert") =>
            (Len(sends') = 1 /\ sends'[1].pc = "load2")
       /\ (SendResumes("load2") /\ ~sends[1].call.error) =>
            messages' = Stored(sends[1].cs.id)
       /\ SendResumes("load2") =>
            (Len(sends') = 1 /\ sends'[1].pc = "touch")
       /\ SendReturns => (sends[1].pc = "touch" /\ ~loading')]_vars

C2_Witness ==
  /\ Len(sends) = 1
  /\ sends[1].failed = {"assistantInsert"}
  /\ sends[1].pc = "touch"
  /\ sends[1].pre = <<>>
  /\ Len(messages) = 1
  /\ messages = Stored(sends[1].cs.id)
  /\ messages[1].role = "user"

\* C3: when the store has rejected the 'user' insert of a send, the send
\* returns at its next step: it has issued no other call, the step changes
\* neither the store nor the in-memory message list, the stored messages of
\* the session are those stored at the invocation, the input field is and
\* stays empty, and loading becomes false.
C3_UserInsertRejected ==
  [][(Len(sends) = 1 /\ "userInsert" \in sends[1].failed) =>
       /\ sends[1].issued = <<"userInsert">>
       /\ sends[1].pc = "userInsert"
       /\ Stored(sends[1].cs.id) = sends[1].pre
       /\ input = <<>>
       /\ loading
       /\ SendResumes("userInsert") =>
            /\ SendReturns
            /\ UNCHANGED <<storeVars, messages, sessions, currentSession>>
            /\ input' = <<>>
            /\ ~loading']_vars

\* A send whose 'user' insert the store has just rejected.
C3_Witness ==
  /\ Len(sends) = 1
  /\ sends[1].failed = {"userInsert"}
  /\ sends[1].typed = strHeadache
  /\ input = <<>>
  /\ messages = <<>>

LoadSessionsResumes ==
  /\ lsCall.call.stage = "answered"
  /\ lsCall'.call.stage = "done"
  /\ ~lsCall.call.error

\* The step in which a createNewSession resumes with the created row.
CreateResumes(i) ==
  /\ i \in DOMAIN creates
  /\ creates[i].call.stage = "answered"
  /\ ~creates[i].call.error
  /\ creates' = Remove(creates, i)

\* data is in descending order of updated_at, and a session created before
\* another one and touched after that one's creation precedes it, if that
\* one was not touched.
TouchedFirst(data) ==
  \A i, j \in DOMAIN data :
    /\ i < j => data[i].updated_at > data[j].updated_at
    /\ ( /\ data[i].created_at < data[j].created_at
         /\ data[j].updated_at = data[j].created_at
         /\ data[j].created_at < data[i].updated_at ) => i < j

C8_AutoSelect ==
  [][LoadSessionsResumes =>
       LET data == lsCall.call.data
       IN /\ (Len(data) > 0 /\ currentSession = NoSession)
               => currentSession'.id = data[1].id
          /\ currentSession # NoSession
               => currentSession'.id = currentSession.id
          /\ (Len(data) = 0 /\ currentSession = NoSession)
               => currentSession' = NoSession]_vars

\* C9: when createNewSession resumes with the created row, the in-memory
\* session list becomes the new session (title "New Chat", owned by the
\* signed-in user) followed by the sessions of the list as it was just
\* before (the new session itself aside, should a response have listed it
\* already), the new session is selected and the message list is empty.
C9_NewChat ==
  [][\A i \in DOMAIN creates :
       CreateResumes(i) =>
         LET row == creates[i].call.data[1]
         IN /\ row.title = "New Chat"
            /\ row.user_id = user.id
            /\ Len(sessions') >= 1
            /\ sessions'[1].id = row.id
            /\ Tail(sessions') = SelectSeq(sessions, LAMBDA x : x.id # row.id)
            /\ currentSession'.id = row.id
            /\ messages' = <<>>]_vars

(***************************************************************************)
(* Progress of sendMessage: every store call of a send is answered, and    *)
(* the handler resumes when the response has arrived.                      *)
(***************************************************************************)
FairSpec ==
  /\ Spec
  /\ WF_vars(\E i \in DOMAIN sends : ServerSend(i))
  /\ WF_vars(\E i \in DOMAIN sends : ContSend(i))

\* C10: a send that has entered "awaiting reply" returns to idle, whichever
\* of its store calls fail.
C10_ReturnsToIdle == (loading /\ sends # <<>>) ~> (~loading /\ sends = <<>>)

C10_Witness ==
  /\ Len(sends) = 1
  /\ sends[1].pc = "touch"
  /\ sends[1].call.stage = "answered"
  /\ sends[1].failed = {"load1", "assistantInsert", "load2", "touch"}

(***************************************************************************)
(* Ownership.  The store also holds a session and messages of another     *)
(* user; loadSessions selects with no user filter.                         *)
(***************************************************************************)
OwnerOf(sid) ==
  (CHOOSE r \in Range(chat_sessions) : r.id = sid).user_id

\* C11: every session of the in-memory list is owned by the signed-in user,
\* every message of the in-memory list belongs to a session that user owns,
\* and the rows of the other user stay the ones the store started with: no
\* insert of the client has added a session or a message for another user.
C11_OwnershipIsolation ==
  /\ \A k \in DOMAIN sessions : sessions[k].user_id = user.id
  /\ currentSession # NoSession => currentSession.user_id = user.id
  /\ \A k \in DOMAIN messages :
       /\ \E r \in Range(chat_sessions) : r.id = messages[k].session_id
       /\ OwnerOf(messages[k].session_id) = user.id
  /\ {r \in Range(chat_sessions) : r.user_id # user.id} = {OtherSession}
  /\ \A k \in DOMAIN db_messages :
       OwnerOf(db_messages[k].session_id) # user.id
         => k <= Len(OtherMessages) /\ db_messages[k] = OtherMessages[k]

C11_Witness ==
  /\ Len(sessions) = 2
  /\ Len(messages) = 2
  /\ Len(db_messages) = 4
  /\ OtherSession \in Range(chat_sessions)

(***************************************************************************)
(* Loads of messages: those of the currentSession effect and the two of a  *)
(* send.  A successful load that has been answered and not yet applied is  *)
(* given by its session, its rows and the number of rows the session held  *)
(* when the store served it.                                               *)
(***************************************************************************)
AnsweredLoads ==
  {[sid |-> loads[i].sessionId, data |-> loads[i].call.data,
    seen |-> loads[i].seen] :
     i \in {j \in DOMAIN loads : loads[j].call.stage = "answered"
                                  /\ ~loads[j].call.error}}
  \cup
  {[sid |-> sends[i].cs.id, data |-> sends[i].call.data,
    seen |-> sends[i].seen] :
     i \in {j \in DOMAIN sends : sends[j].pc \in {"load1", "load2"}
                                  /\ sends[j].call.stage = "answered"
                                  /\ ~sends[j].call.error}}

Ascending(data) ==
  \A a, b \in DOMAIN data : a < b => data[a].created_at < data[b].created_at

\* The response of a successful load is applied in this step.
LoadApplied(data) ==
  \/ \E i \in DOMAIN loads :
       /\ loads[i].call.stage = "answered" /\ ~loads[i].call.error
       /\ loads[i].call.data = data
       /\ loads' = Remove(loads, i)
  \/ /\ Len(sends) = 1
     /\ sends[1].pc \in {"load1", "load2"} /\ ~sends[1].call.error
     /\ sends[1].call.data = data
     /\ SendResumes(sends[1].pc)

\* C12: two successful loads of the same session that the store served with
\* no write to that session in between return the same rows, all rows of the
\* session in ascending order of creation; applying the second one leaves the
\* in-memory list as the first one set it.
C12_Idempotence ==
  /\ [](\A A \in AnsweredLoads :
          /\ Ascending(A.data)
          /\ Len(A.data) = A.seen
          /\ \A k \in DOMAIN A.data : A.data[k].session_id = A.sid
          /\ A.seen = Len(Stored(A.sid)) => A.data = Stored(A.sid)
          /\ \A B \in AnsweredLoads :
               A.sid = B.sid /\ A.seen = B.seen => A.data = B.data)
  /\ [][\A A \in AnsweredLoads :
          /\ LoadApplied(A.data) => messages' = A.data
          /\ LoadApplied(A.data) /\ messages = A.data => messages' = messages]_vars

\* Two loads of one session, served with the same two rows stored, are both
\* answered, and the list already shows what the first of them returned.
C12_Witness ==
  /\ Len(loads) = 1 /\ Len(sends) = 1
  /\ loads[1].call.stage = "answered" /\ ~loads[1].call.error
  /\ sends[1].pc = "touch"
  /\ loads[1].sessionId = sends[1].cs.id
  /\ loads[1].seen = 2
  /\ messages = loads[1].call.data

C14_AppendOnly ==
  [][/\ Len(db_messages') >= Len(db_messages)
     /\ SubSeq(db_messages', 1, Len(db_messages)) = db_messages
     /\ \A r \in Range(chat_sessions) :
          /\ Len(StoredAfter(r.id)) >= Len(Stored(r.id))
          /\ SubSeq(StoredAfter(r.id), 1, Len(Stored(r.id))) = Stored(r.id)
     /\ Len(chat_sessions') >= Len(chat_sessions)
     /\ \A k \in DOMAIN chat_sessions :
          chat_sessions'[k] =
            [chat_sessions[k] EXCEPT !.updated_at = chat_sessions'[k].updated_at]
    ]_vars

\* Two messages and a session were added, and a session was touched.
C14_Witness ==
  /\ Len(db_messages) = 4
  /\ Len(chat_sessions) = 3
  /\ \E r \in Range(chat_sessions) : r.updated_at > r.created_at
                                      /\ r.user_id = user.id

\* The store serves the touch of the send in flight in this step.
TouchServed ==
  /\ Len(sends) = 1 /\ Len(sends') = 1
  /\ sends[1].pc = "touch" /\ sends[1].call.stage = "sent"
  /\ sends'[1].call.stage = "answered"

\* C15: a send whose 'user' insert succeeded issues the touch exactly once,
\* as its last call, after the 'assistant' insert and the second reload,
\* whether or not those failed; it returns to idle whether or not the touch
\* failed; and a touch changes nothing in the store but updated_at of the
\* session the send started in, a failed one nothing at all.
C15_TouchBestEffort ==
  [][/\ (SendReturns /\ "userInsert" \notin sends[1].failed) =>
          /\ sends[1].issued =
               <<"userInsert", "load1", "assistantInsert", "load2", "touch">>
          /\ sends[1].pc = "touch"
          /\ ~loading'
     /\ SendResumes("load2") => (Len(sends') = 1 /\ sends'[1].pc = "touch")
     /\ TouchServed =>
          /\ db_messages' = db_messages
          /\ \A k \in DOMAIN chat_sessions :
               chat_sessions'[k] =
                 IF chat_sessions[k].id = sends[1].cs.id /\ ~sends'[1].call.error
                 THEN [chat_sessions[k] EXCEPT !.updated_at = sends[1].updated_at]
                 ELSE chat_sessions[k]
     /\ (\E k \in DOMAIN chat_sessions :
           chat_sessions'[k].updated_at # chat_sessions[k].updated_at)
          => TouchServed
    ]_vars

\* The 'assistant' insert of a send was rejected and its touch has been
\* applied, while another session of the user stays as it was.
C15_Witness ==
  /\ Len(sends) = 1
  /\ sends[1].pc = "touch" /\ sends[1].call.stage = "answered"
  /\ sends[1].failed = {"assistantInsert"}
  /\ \E r \in Range(chat_sessions) :
       r.id = sends[1].cs.id /\ r.updated_at = sends[1].updated_at
  /\ \E r \in Range(chat_sessions) :
       r.id # sends[1].cs.id /\ r.user_id = user.id

\* C16: a rejected session insert of createNewSession creates no row, and the
\* handler that resumes with the error leaves the in-memory session list, the
\* selected session and the in-memory message list as they are, starts no
\* load and returns.
C16_FailedCreate ==
  [][\A i \in DOMAIN creates :
       /\ (/\ creates[i].call.stage = "sent"
           /\ Len(creates') = Len(creates)
           /\ creates'[i].call.stage = "answered"
           /\ creates'[i].call.error)
          => UNCHANGED <<chat_sessions, db_messages, sessions, currentSession,
                         messages>>
       /\ (/\ creates[i].call.stage = "answered"
           /\ creates[i].call.error
           /\ creates' = Remove(creates, i))
          => UNCHANGED <<chat_sessions, db_messages, sessions, currentSession,
                         messages, loads, input, loading>>
    ]_vars

\* A rejected creation is about to resume while a session is selected and
\* its messages are shown.
C16_Witness ==
  /\ Len(creates) = 1
  /\ creates[1].call.stage = "answered" /\ creates[1].call.error
  /\ currentSession # NoSession
  /\ Len(messages) = 2
  /\ Len(chat_sessions) = 2

\* C17: whenever no load of messages is in flight, neither of the
\* currentSession effect nor of a send, and no handler is about to start one,
\* every message of the in-memory list belongs to the selected session.
C17_ViewConsistency ==
  (loads = <<>> /\ sends = <<>> /\ creates = <<>> /\ currentSession # NoSession)
    => \A k \in DOMAIN messages : messages[k].session_id = currentSession.id

\* C18: a send keeps the session that was selected when it was invoked: the
\* rows it inserts carry that session's id and its touch writes that
\* session's row, also after the selection has changed; nothing but a send
\* writes a message or an updated_at.
C18_SendBound ==
  [][/\ (sends = <<>> /\ Len(sends') = 1) => sends'[1].cs = currentSession
     /\ (Len(sends) = 1 /\ Len(sends') = 1) => sends'[1].cs = sends[1].cs
     /\ db_messages' # db_messages =>
          /\ Len(sends) = 1
          /\ sends[1].pc \in {"userInsert", "assistantInsert"}
          /\ Len(db_messages') = Len(db_messages) + 1
          /\ db_messages'[Len(db_messages')].session_id = sends[1].cs.id
     /\ \A k \in DOMAIN chat_sessions :
          chat_sessions'[k].updated_at # chat_sessions[k].updated_at =>
            /\ Len(sends) = 1
            /\ sends[1].pc = "touch"
            /\ chat_sessions[k].id = sends[1].cs.id
     /\ (SendReturns /\ sends[1].failed = {}) =>
          PreThenExchange(StoredAfter(sends[1].cs.id), sends[1])
    ]_vars

\* The selection changed while the send was in flight; both messages are
\* stored in the session the send started in, that session has been touched,
\* and the session selected now stores nothing.
C18_Witness ==
  /\ Len(sends) = 1
  /\ sends[1].switched
  /\ sends[1].pc = "touch" /\ sends[1].call.stage = "answered"
  /\ sends[1].failed = {}
  /\ currentSession.id # sends[1].cs.id
  /\ Len(Stored(sends[1].cs.id)) = 2
  /\ Stored(currentSession.id) = <<>>
  /\ \E r \in Range(chat_sessions) :
       r.id = sends[1].cs.id /\ r.updated_at = sends[1].updated_at

\* The response of a failed load is dealt with in this step.
FailedLoadApplied ==
  \/ \E i \in DOMAIN loads :
       /\ loads[i].call.stage = "answered" /\ loads[i].call.error
       /\ loads' = Remove(loads, i)
  \/ /\ Len(sends) = 1
     /\ sends[1].pc \in {"load1", "load2"} /\ sends[1].call.error
     /\ SendResumes(sends[1].pc)

\* C19: the in-memory message list is empty or the stored sequence of one
\* session as a load read it earlier, which in an append-only table is a
\* prefix of what that session stores now; the list changes only by being
\* set to the rows a successful load returned or by being emptied when a
\* created session is selected; a failed load leaves it as it is.
C19_NoOptimisticAppend ==
  /\ [](\/ messages = <<>>
        \/ \E r \in Range(chat_sessions) :
             /\ Len(messages) <= Len(Stored(r.id))
             /\ messages = SubSeq(Stored(r.id), 1, Len(messages)))
  /\ [][/\ messages' # messages =>
             \/ \E A \in AnsweredLoads :
                  LoadApplied(A.data) /\ messages' = A.data
             \/ \E i \in DOMAIN creates : CreateResumes(i) /\ messages' = <<>>
        /\ FailedLoadApplied => messages' = messages]_vars

\* A failed load is about to be dealt with while the list shows an exchange.
C19_Witness ==
  /\ Len(loads) = 1
  /\ loads[1].call.stage = "answered" /\ loads[1].call.error
  /\ Len(messages) = 2
  /\ messages = Stored(loads[1].sessionId)

(***************************************************************************)
(* useAuth and App on their own.  The auth service holds a session or      *)
(* none; it changes by a sign-in or a sign-out, here or in another tab,    *)
(* and every change is announced by an event that the callback registered  *)
(* with onAuthStateChange receives later.  getSession() reads the session  *)
(* when the service serves it; its then-callback runs when the response    *)
(* has arrived.  The variables of ChatInterface stay as they start.        *)
(***************************************************************************)
AuthUsers == {user.id, otherUserId}

InitAuth ==
  /\ InitChat
  /\ authSession \in AuthUsers \cup {NoUser}
  /\ getSessionCall = Call("sent", FALSE, NoUser)
  /\ authEvents = <<>>
  /\ authUser = NoUser
  /\ authLoading = TRUE
  /\ lastEvent = [seen |-> FALSE, user |-> NoUser]
  /\ authChanges = 0

\* App: Loading... while loading, else Auth without a user, else ChatInterface.
AppView ==
  IF authLoading THEN "loading"
  ELSE IF authUser = NoUser THEN "auth" ELSE "chat"

\* supabase.auth.getSession() is served: it reads the session of now.
ServerGetSession ==
  /\ getSessionCall.stage = "sent"
  /\ getSessionCall' = Call("answered", FALSE, authSession)
  /\ UNCHANGED <<authSession, authEvents, authUser, authLoading, lastEvent,
                 authChanges>>
  /\ UNCHANGED <<storeVars, viewVars, callVars, selVars>>

\* .then(({ data: { session } }) => { setUser(...); setLoading(false) })
ContGetSession ==
  /\ getSessionCall.stage = "answered"
  /\ getSessionCall' = [getSessionCall EXCEPT !.stage = "done"]
  /\ authUser' = getSessionCall.data
  /\ authLoading' = FALSE
  /\ UNCHANGED <<authSession, authEvents, lastEvent, authChanges>>
  /\ UNCHANGED <<storeVars, viewVars, callVars, selVars>>

\* The session of the auth service changes to s, by a sign-in when there is
\* none or by a sign-out, and the change is announced.
AuthStateChange(s) ==
  /\ authChanges < MaxAuthChanges
  /\ s # authSession
  /\ s = NoUser \/ authSession = NoUser
  /\ authSession' = s
  /\ authEvents' = Append(authEvents, s)
  /\ authChanges' = authChanges + 1
  /\ UNCHANGED <<getSessionCall, authUser, authLoading, lastEvent>>
  /\ UNCHANGED <<storeVars, viewVars, callVars, selVars>>

\* handleLogout: supabase.auth.signOut(); the button is part of ChatInterface.
handleLogout ==
  /\ AppView = "chat"
  /\ authChanges < MaxAuthChanges
  /\ authSession' = NoUser
  /\ authEvents' = Append(authEvents, NoUser)
  /\ authChanges' = authChanges + 1
  /\ UNCHANGED <<getSessionCall, authUser, authLoading, lastEvent>>
  /\ UNCHANGED <<storeVars, viewVars, callVars, selVars>>

\* The callback of onAuthStateChange: setUser(session?.user ?? null).
onAuthStateChange ==
  /\ authEvents # <<>>
  /\ authUser' = Head(authEvents)
  /\ authEvents' = Tail(authEvents)
  /\ lastEvent' = [seen |-> TRUE, user |-> Head(authEvents)]
  /\ UNCHANGED <<authSession, getSessionCall, authLoading, authChanges>>
  /\ UNCHANGED <<storeVars, viewVars, callVars, selVars>>

NextAuth ==
  \/ ServerGetSession
  \/ ContGetSession
  \/ \E s \in AuthUsers \cup {NoUser} : AuthStateChange(s)
  \/ handleLogout
  \/ onAuthStateChange

SpecAuth == InitAuth /\ [][NextAuth]_vars

\* The gating half of C20: ChatInterface is rendered only when the initial
\* getSession() has completed and the auth state holds a user; while it has
\* not completed, Loading... is rendered, neither Auth nor ChatInterface;
\* loading, once false, stays false.
C20_Gating ==
  /\ [](AppView = "chat" =>
          getSessionCall.stage = "done" /\ authUser # NoUser)
  /\ [](getSessionCall.stage # "done" => AppView = "loading")
  /\ [][~authLoading => ~authLoading']_vars

\* C20: the gating above, and the user of the auth state is the one the
\* most recent auth event delivered, so that the completion of the initial
\* getSession() does not replace a user an event delivered before it.
C20_AuthGating ==
  /\ C20_Gating
  /\ [](lastEvent.seen => authUser = lastEvent.user)

====
